---- MODULE Spec2Model ----
(***************************************************************************)
(* Food Rescue @ Campus (src/app.py): the post lifecycle over the CSV      *)
(* store.  The store is the file surplus.csv plus the process-wide         *)
(* st.cache_data cache of load_data(); every Streamlit script run of a     *)
(* session is one handler.  Text cells are sequences of one-character      *)
(* strings, timestamps are records (NaT, naive, or zone-aware), the clock  *)
(* is the host's naive local time datetime.now().                          *)
(***************************************************************************)
EXTENDS Integers, Sequences, FiniteSets, TLC

VARIABLES
    file,      \* rows of surplus.csv, as written by save_data
    cache,     \* st.cache_data entry of load_data(): [valid, df]
    clock,     \* datetime.now(): the host's naive local time
    off,       \* UTC offset of tz.tzlocal()
    session,   \* st.session_state of each browser session: role, user_name, user_phone
    last,      \* the outcome of the script run just made (none once the clock moves on)
    pc,        \* interleaved runs only: where each session's handler stands
    ldf,       \* interleaved runs only: the DataFrame a handler holds between load and save
    req        \* interleaved runs only: the submitted form of the handler under way

vars == <<file, cache, clock, off, session, last, pc, ldf, req>>

----------------------------------------------------------------------------
(* Bounds of the model *)

MaxClock == 1
MaxPosts == 2
TzStep == 2
IdRands == 1
CodeLen == 1

STATUS_OPEN == "open"
STATUS_CLAIMED == "claimed"
STATUS_COMPLETED == "completed"
STATUS_EXPIRED == "expired"

Sessions == {1, 2}
Digits == {"0", "1"}
Offsets == {-TzStep, 0, TzStep}
DayLen == MaxClock + 1

----------------------------------------------------------------------------
(* Text *)

NaN == <<"NaN">>
Blank == " "

RECURSIVE LStrip(_)
LStrip(s) == IF s # <<>> /\ Head(s) = Blank THEN LStrip(Tail(s)) ELSE s

RECURSIVE RStrip(_)
RStrip(s) ==
    IF s # <<>> /\ s[Len(s)] = Blank THEN RStrip(SubSeq(s, 1, Len(s) - 1)) ELSE s

\* str.strip()
Strip(s) == RStrip(LStrip(s))

\* str(x): a missing cell prints as "nan"
Str(x) == IF x = NaN THEN <<"n", "a", "n">> ELSE x

IsDigit(s) == s # <<>> /\ \A i \in 1..Len(s) : s[i] \in {"0","1","2","3","4","5","6","7","8","9"}

validate_phone(p) ==
    /\ p # <<>>
    /\ IsDigit(Strip(p))
    /\ 7 <= Len(Strip(p))
    /\ Len(Strip(p)) <= 13

DigitChars == <<"0", "1", "2", "3", "4", "5", "6", "7", "8", "9">>

\* to_csv of an integer cell: its decimal digits
RECURSIVE IntText(_)
IntText(n) ==
    IF n < 10 THEN <<DigitChars[n + 1]>>
    ELSE Append(IntText(n \div 10), DigitChars[(n % 10) + 1])

RECURSIVE TextInt(_)
TextInt(s) ==
    IF s = <<>> THEN 0
    ELSE 10 * TextInt(SubSeq(s, 1, Len(s) - 1))
         + (CHOOSE d \in 0..9 : DigitChars[d + 1] = s[Len(s)])

\* pd.to_numeric(x, errors="coerce").fillna(0).astype(int) of one cell
to_numeric(x) == IF IsDigit(x) THEN TextInt(x) ELSE 0

\* random.choices(string.digits, k=n)
gen_code(n) == [1..n -> Digits]

----------------------------------------------------------------------------
(* Time *)

NaT == [k |-> "NaT"]
Naive(t) == [k |-> "naive", t |-> t]
Aware(t, o) == [k |-> "aware", t |-> t, off |-> o]

\* datetime.now()
Now == Naive(clock)

\* date.today(), as the naive time of its midnight
Today == (clock \div DayLen) * DayLen

\* datetime.combine(today, hhmm).replace(tzinfo=tz.tzlocal())
build_ready_until(today, hhmm) == Aware(today + hhmm, off)

\* dt.astimezone(tz.tzlocal()).isoformat(): a naive dt is taken as local time
local_iso(dt) ==
    IF dt.k = "naive" THEN Aware(dt.t, off)
    ELSE IF dt.k = "aware" THEN Aware(dt.t - dt.off + off, off)
    ELSE NaT

\* pd.to_datetime(x, errors="coerce", utc=True).tz_convert(None):
\* a zoned value becomes its UTC reading, a naive one is taken as UTC already
ToNaiveUtc(x) ==
    IF x.k = "aware" THEN Naive(x.t - x.off)
    ELSE x

\* new_id(): the second of the clock followed by three random digits
new_id(rnd) == <<clock, rnd>>

----------------------------------------------------------------------------
(* The CSV store *)

TextCols == {"donor_name", "donor_phone", "food_desc", "veg_type", "allergens",
             "address", "claimer_name", "claimer_phone", "donor_code",
             "volunteer_code"}
TimeCols == {"created_at_iso", "ready_until_iso", "completed_at_iso"}

\* to_csv: a missing cell and an empty string are both written as nothing
CsvText(x) == IF x = NaN THEN <<>> ELSE x

\* read_csv(dtype=str): an empty field is read as missing
ReadText(x) == IF x = <<>> THEN NaN ELSE x

\* a row as read_csv and the timestamp parse of load_data return it
ParseRow(row) ==
    [c \in DOMAIN row |->
        IF c \in TextCols THEN ReadText(row[c])
        ELSE IF c \in TimeCols THEN ToNaiveUtc(row[c])
        ELSE IF c = "qty_meals" THEN to_numeric(ReadText(row[c]))
        ELSE row[c]]

\* a row as save_data writes it
StoreRow(row) ==
    [c \in DOMAIN row |->
        IF c \in TextCols THEN CsvText(row[c])
        ELSE IF c \in TimeCols THEN ToNaiveUtc(row[c])
        ELSE IF c = "qty_meals" THEN IntText(row[c])
        ELSE row[c]]

\* load_data._expire_row with a lapsed claim released: Claimed goes back to Open
expire_row_release(row, now) ==
    LET ru == row.ready_until_iso IN
    IF ru.k = "NaT" THEN row.status
    ELSE IF row.status = STATUS_OPEN /\ ru.t < now.t THEN STATUS_EXPIRED
    ELSE IF row.status = STATUS_CLAIMED /\ ru.t < now.t THEN STATUS_OPEN
    ELSE row.status

\* load_data._expire_row with a post expiring at its deadline already
expire_row_at_deadline(row, now) ==
    LET ru == row.ready_until_iso IN
    IF ru.k = "NaT" THEN row.status
    ELSE IF row.status \in {STATUS_OPEN, STATUS_CLAIMED} /\ ru.t <= now.t THEN STATUS_EXPIRED
    ELSE row.status

\* load_data._expire_row
expire_row(row, now) ==
    LET ru == row.ready_until_iso IN
    IF ru.k = "NaT" THEN row.status
    ELSE IF row.status \in {STATUS_OPEN, STATUS_CLAIMED} /\ ru.t < now.t THEN STATUS_EXPIRED
    ELSE row.status

\* load_data on a cache miss: read_csv, the timestamp and quantity parses, the expiry
ReadCsv(f, now) ==
    [i \in 1..Len(f) |->
        LET parsed == ParseRow(f[i])
        IN  [parsed EXCEPT !.status = expire_row(parsed, now)]]

\* save_data up to the write: the timestamp normalisation and to_csv
WriteCsv(df) == [i \in 1..Len(df) |-> StoreRow(df[i])]

NoCache == [valid |-> FALSE, df |-> <<>>]

\* load_data(): the cached frame when there is one, else a fresh read that is cached
load_data_df == IF cache.valid THEN cache.df ELSE ReadCsv(file, Now)

\* save_data(df): the file is rewritten and load_data.clear() drops the cache
save_data_file(df) == WriteCsv(df)

----------------------------------------------------------------------------
(* The lifecycle operations on a loaded DataFrame.  Each returns the outcome,
   the status its st.error message names ("-" when it names none), and the
   frame it would save. *)

Mask(df, post_id) == {i \in 1..Len(df) : df[i].id = post_id}

FirstOf(S) == CHOOSE i \in S : \A j \in S : i <= j

Outcome(res, msg, df) == [res |-> res, msg |-> msg, df |-> df]

\* donor_post_page, lines 424-445: the new row appended to the loaded frame
NewPost(df, ss, food_desc, qty, until_time, allergens, address, rnd, code) ==
    LET ready_until == build_ready_until(Today, until_time)
        post == [ id |-> new_id(rnd),
                  created_at_iso |-> local_iso(Now),
                  donor_name |-> ss.user_name,
                  donor_phone |-> ss.user_phone,
                  food_desc |-> Strip(food_desc),
                  qty_meals |-> qty,
                  veg_type |-> <<"V">>,
                  allergens |-> Strip(allergens),
                  address |-> Strip(address),
                  ready_until_iso |-> local_iso(ready_until),
                  ready_until_hhmm |-> until_time,
                  status |-> STATUS_OPEN,
                  claimer_name |-> <<>>,
                  claimer_phone |-> <<>>,
                  donor_code |-> code,
                  volunteer_code |-> <<>>,
                  completed_at_iso |-> NaT ]
    IN  Append(df, post)

\* _update_status that also sets the meals of a cancelled post to 0
update_status_zero_qty(df, post_id, required_status, new_status, allow_any_status) ==
    LET mask == Mask(df, post_id) IN
    IF mask = {} THEN Outcome("NotFound", "-", df)
    ELSE LET row == df[FirstOf(mask)] IN
         IF (~allow_any_status) /\ row.status # required_status
         THEN Outcome("InvalidState", row.status, df)
         ELSE Outcome("ok", "-",
                [i \in 1..Len(df) |->
                    IF i \notin mask THEN df[i]
                    ELSE [df[i] EXCEPT !.status = new_status, !.ready_until_iso = Now,
                                       !.qty_meals = 0]])

\* _update_status(post_id, required_status, new_status, allow_any_status)
update_status(df, post_id, required_status, new_status, allow_any_status) ==
    LET mask == Mask(df, post_id) IN
    IF mask = {} THEN Outcome("NotFound", "-", df)
    ELSE LET row == df[FirstOf(mask)] IN
         IF (~allow_any_status) /\ row.status # required_status
         THEN Outcome("InvalidState", row.status, df)
         ELSE Outcome("ok", "-",
                [i \in 1..Len(df) |->
                    IF i \notin mask THEN df[i]
                    ELSE IF new_status = STATUS_EXPIRED
                         THEN [df[i] EXCEPT !.status = new_status, !.ready_until_iso = Now]
                         ELSE [df[i] EXCEPT !.status = new_status]])

\* _complete_post with the expected code taken from the actor's own side
complete_post_own_code(df, post_id, other_party_code, actor) ==
    LET mask == Mask(df, post_id) IN
    IF mask = {} THEN Outcome("NotFound", "-", df)
    ELSE LET row == df[FirstOf(mask)]
             expected_code == IF actor = "volunteer" THEN row.volunteer_code
                              ELSE row.donor_code
         IN
         IF row.status # STATUS_CLAIMED THEN Outcome("InvalidState", "-", df)
         ELSE IF Strip(Str(other_party_code)) # Strip(Str(expected_code))
         THEN Outcome("CodeMismatch", "-", df)
         ELSE Outcome("ok", "-",
                [i \in 1..Len(df) |->
                    IF i \notin mask THEN df[i]
                    ELSE [df[i] EXCEPT !.status = STATUS_COMPLETED,
                                       !.completed_at_iso = local_iso(Now)]])

\* _complete_post(post_id, other_party_code, actor)
complete_post(df, post_id, other_party_code, actor) ==
    LET mask == Mask(df, post_id) IN
    IF mask = {} THEN Outcome("NotFound", "-", df)
    ELSE LET row == df[FirstOf(mask)]
             expected_code == IF actor = "volunteer" THEN row.donor_code
                              ELSE row.volunteer_code
         IN
         IF row.status # STATUS_CLAIMED THEN Outcome("InvalidState", "-", df)
         ELSE IF Strip(Str(other_party_code)) # Strip(Str(expected_code))
         THEN Outcome("CodeMismatch", "-", df)
         ELSE Outcome("ok", "-",
                [i \in 1..Len(df) |->
                    IF i \notin mask THEN df[i]
                    ELSE [df[i] EXCEPT !.status = STATUS_COMPLETED,
                                       !.completed_at_iso = local_iso(Now)]])

\* the claim of volunteer_find_claim_page, also stamping completed_at_iso
claim_post_stamped(df2, target_id, ss, vcode) ==
    LET mask == Mask(df2, target_id) IN
    IF mask = {} THEN Outcome("NotFound", "-", df2)
    ELSE LET row == df2[FirstOf(mask)] IN
         IF row.status # STATUS_OPEN THEN Outcome("InvalidState", row.status, df2)
         ELSE Outcome("ok", "-",
                [i \in 1..Len(df2) |->
                    IF i \notin mask THEN df2[i]
                    ELSE [df2[i] EXCEPT !.status = STATUS_CLAIMED,
                                        !.claimer_name = ss.user_name,
                                        !.claimer_phone = ss.user_phone,
                                        !.volunteer_code = vcode,
                                        !.completed_at_iso = local_iso(Now)]])

\* volunteer_find_claim_page, lines 597-610
claim_post(df2, target_id, ss, vcode) ==
    LET mask == Mask(df2, target_id) IN
    IF mask = {} THEN Outcome("NotFound", "-", df2)
    ELSE LET row == df2[FirstOf(mask)] IN
         IF row.status # STATUS_OPEN THEN Outcome("InvalidState", row.status, df2)
         ELSE Outcome("ok", "-",
                [i \in 1..Len(df2) |->
                    IF i \notin mask THEN df2[i]
                    ELSE [df2[i] EXCEPT !.status = STATUS_CLAIMED,
                                        !.claimer_name = ss.user_name,
                                        !.claimer_phone = ss.user_phone,
                                        !.volunteer_code = vcode]])

\* donor_my_posts_page, line 489
MyPosts(df, ss) ==
    {i \in 1..Len(df) : df[i].donor_name = ss.user_name /\ df[i].donor_phone = ss.user_phone}

\* volunteer_my_claims_page, line 619
MyClaims(df, ss) ==
    {i \in 1..Len(df) : df[i].claimer_name = ss.user_name /\ df[i].claimer_phone = ss.user_phone}

\* volunteer_find_claim_page, line 543
OpenRows(df) == {i \in 1..Len(df) : df[i].status = STATUS_OPEN}

\* volunteer_find_claim_page, lines 560-561: the listing "only within time window"
OpenListing(df, only_open_now) ==
    {i \in OpenRows(df) :
        only_open_now =>
            (df[i].ready_until_iso.k # "NaT" /\ df[i].ready_until_iso.t > clock)}

----------------------------------------------------------------------------
(* Inputs *)

\* what the person at each browser types into role_page
NameOf(s) == IF s = 1 THEN <<"d">> ELSE <<"v">>
PhoneOf(s) == IF s = 1 THEN <<"5","5","5","0","1","0","1">> ELSE <<"5","5","5","0","1","0","2">>
RoleOf(s) == IF s = 1 THEN "donor" ELSE "volunteer"
NamesAt(s) == {<<>>, NameOf(s)}
PhonesAt(s) == {<<"1">>, PhoneOf(s)}

Codes == gen_code(CodeLen)
Padded(c) == <<Blank>> \o c \o <<Blank>>
PresentedCodes == Codes \cup {Padded(c) : c \in Codes} \cup {<<>>}

Qtys == {10}
Texts == {<<>>, <<"r">>}
UntilTimes == 0..MaxClock
Rnds == 0..(IdRands - 1)

NoSuchId == <<-1, 0>>
EmptyId == <<>>
\* not target_id.strip()
IdBlank(target_id) == target_id = EmptyId
TargetIds == {file[i].id : i \in 1..Len(file)} \cup {NoSuchId, EmptyId}

\* the outcome keeps the presented code where the code check was reached
Kept(res, code) == IF res \in {"ok", "CodeMismatch"} THEN code ELSE <<>>
KeptWho(res, s) == IF res = "ok" THEN s ELSE 0
KeptId(res, id) == IF res = "ValidationError" THEN EmptyId ELSE id

NoSession == [role |-> "none", user_name |-> <<>>, user_phone |-> <<>>]

Last(op, s, id, code, actor, res, msg) ==
    [op |-> op, who |-> s, id |-> id, code |-> code, actor |-> actor,
     res |-> res, msg |-> msg]

NoLast == [op |-> "none", who |-> 0, id |-> EmptyId, code |-> <<>>, actor |-> "-",
           res |-> "-", msg |-> "-"]

\* interleaved runs: the form a handler is working on and how it ended; pre is
\* the row it read, as a sequence of at most one row
Req(op, id, code, actor, res, pre) ==
    [op |-> op, id |-> id, code |-> code, actor |-> actor, res |-> res, pre |-> pre]

NoReq == Req("none", EmptyId, <<>>, "-", "-", <<>>)

PreRow(df, post_id) == IF Mask(df, post_id) = {} THEN <<>> ELSE <<df[FirstOf(Mask(df, post_id))]>>

\* the cache after a load_data() that follows a save_data(df) in the same run
Reloaded(df) == [valid |-> TRUE, df |-> ReadCsv(save_data_file(df), Now)]

\* the cache after a load_data() with no save before it in the run
Loaded == [valid |-> TRUE, df |-> load_data_df]

----------------------------------------------------------------------------
(* Script runs, one at a time: every run is atomic *)

Init ==
    /\ file = <<>>
    /\ cache = NoCache
    /\ clock = 0
    /\ off \in Offsets
    /\ session = [s \in Sessions |-> NoSession]
    /\ last = NoLast
    /\ pc = [s \in Sessions |-> "idle"]
    /\ ldf = [s \in Sessions |-> <<>>]
    /\ req = [s \in Sessions |-> NoReq]

\* the host's clock advances
Tick ==
    /\ clock < MaxClock
    /\ clock' = clock + 1
    /\ last' = NoLast
    /\ UNCHANGED <<file, cache, off, session, pc, ldf, req>>

\* role_page: the form is checked, the role is stored, and the rerun renders the
\* role's tabs, which load the data
role_page(s, role, name, phone) ==
    /\ session[s].role = "none"
    /\ Strip(name) # <<>>
    /\ validate_phone(phone)
    /\ session' = [session EXCEPT ![s] =
            [role |-> role, user_name |-> Strip(name), user_phone |-> Strip(phone)]]
    /\ cache' = Loaded
    /\ last' = Last("view", 0, EmptyId, <<>>, "-", "-", "-")
    /\ UNCHANGED <<file, clock, off, pc, ldf, req>>

\* _reset_role: the "Switch Role" button; the rerun shows the home page
reset_role(s) ==
    /\ session[s].role # "none"
    /\ session' = [session EXCEPT ![s] = NoSession]
    /\ UNCHANGED <<file, cache, clock, off, last, pc, ldf, req>>

\* dashboard_page: any session may open it
dashboard_page(s) ==
    /\ cache' = Loaded
    /\ last' = Last("dashboard", 0, EmptyId, <<>>, "-", "-", "-")
    /\ UNCHANGED <<file, clock, off, session, pc, ldf, req>>

\* food_rescue_router with no form submitted: both tabs of the role render
food_rescue_view(s) ==
    /\ session[s].role # "none"
    /\ cache' = Loaded
    /\ last' = Last("view", 0, EmptyId, <<>>, "-", "-", "-")
    /\ UNCHANGED <<file, clock, off, session, pc, ldf, req>>

\* donor_post_page with the form submitted, then donor_my_posts_page renders
donor_post_page(s, food_desc, address, qty, until_time, rnd, code) ==
    /\ session[s].role = "donor"
    /\ Len(file) < MaxPosts
    /\ IF Strip(food_desc) = <<>> \/ Strip(address) = <<>>
       THEN /\ last' = Last("create", 0, EmptyId, <<>>, "-", "ValidationError", "-")
            /\ cache' = Loaded
            /\ file' = file
       ELSE LET df == NewPost(load_data_df, session[s], food_desc, qty, until_time,
                              <<>>, address, rnd, code)
            IN  /\ file' = save_data_file(df)
                /\ cache' = Reloaded(df)
                /\ last' = Last("create", 0, new_id(rnd), <<>>, "-", "ok", "-")
    /\ UNCHANGED <<clock, off, session, pc, ldf, req>>

\* donor_my_posts_page with "Update a post" submitted: Cancel or Mark Completed
donor_my_posts_page(s, target_id, action, vcode) ==
    /\ session[s].role = "donor"
    /\ MyPosts(load_data_df, session[s]) # {}
    /\ LET df == load_data_df
           o == IF IdBlank(target_id)
                THEN Outcome("ValidationError", "-", df)
                ELSE IF action = "cancel"
                THEN update_status(df, target_id, STATUS_OPEN, STATUS_EXPIRED, FALSE)
                ELSE IF Strip(vcode) = <<>>
                THEN Outcome("ValidationError", "-", df)
                ELSE complete_post(df, target_id, vcode, "donor")
       IN  /\ last' = IF action = "cancel"
                       THEN Last("cancel", 0, KeptId(o.res, target_id), <<>>, "-", o.res, o.msg)
                       ELSE Last("complete", KeptWho(o.res, s), KeptId(o.res, target_id),
                                 Kept(o.res, vcode), "donor", o.res, o.msg)
           /\ IF o.res = "ok"
              THEN file' = save_data_file(o.df) /\ cache' = NoCache
              ELSE file' = file /\ cache' = Loaded
    /\ UNCHANGED <<clock, off, session, pc, ldf, req>>

\* volunteer_find_claim_page with "Claim a post" submitted, then
\* volunteer_my_claims_page renders
volunteer_find_claim_page(s, target_id, vcode) ==
    /\ session[s].role = "volunteer"
    /\ OpenRows(load_data_df) # {}
    /\ LET df2 == load_data_df
           o == IF IdBlank(target_id)
                THEN Outcome("ValidationError", "-", df2)
                ELSE claim_post(df2, target_id, session[s], vcode)
       IN  /\ last' = Last("claim", 0, KeptId(o.res, target_id), <<>>, "-", o.res, o.msg)
           /\ IF o.res = "ok"
              THEN file' = save_data_file(o.df) /\ cache' = Reloaded(o.df)
              ELSE file' = file /\ cache' = Loaded
    /\ UNCHANGED <<clock, off, session, pc, ldf, req>>

\* volunteer_my_claims_page saving the frame it loaded whatever the outcome
volunteer_my_claims_page_saving(s, target_id, dcode) ==
    /\ session[s].role = "volunteer"
    /\ MyClaims(load_data_df, session[s]) # {}
    /\ LET df == load_data_df
           o == IF IdBlank(target_id) \/ Strip(dcode) = <<>>
                THEN Outcome("ValidationError", "-", df)
                ELSE complete_post(df, target_id, dcode, "volunteer")
       IN  /\ last' = Last("complete", KeptWho(o.res, s), KeptId(o.res, target_id),
                           Kept(o.res, dcode), "volunteer", o.res, o.msg)
           /\ file' = save_data_file(o.df)
           /\ cache' = NoCache
    /\ UNCHANGED <<clock, off, session, pc, ldf, req>>

\* volunteer_my_claims_page with "Complete a pickup" submitted
volunteer_my_claims_page(s, target_id, dcode) ==
    /\ session[s].role = "volunteer"
    /\ MyClaims(load_data_df, session[s]) # {}
    /\ LET df == load_data_df
           o == IF IdBlank(target_id) \/ Strip(dcode) = <<>>
                THEN Outcome("ValidationError", "-", df)
                ELSE complete_post(df, target_id, dcode, "volunteer")
       IN  /\ last' = Last("complete", KeptWho(o.res, s), KeptId(o.res, target_id),
                           Kept(o.res, dcode), "volunteer", o.res, o.msg)
           /\ IF o.res = "ok"
              THEN file' = save_data_file(o.df) /\ cache' = NoCache
              ELSE file' = file /\ cache' = Loaded
    /\ UNCHANGED <<clock, off, session, pc, ldf, req>>

Next ==
    \/ Tick
    \/ \E s \in Sessions :
          \E role \in {RoleOf(s)}, name \in NamesAt(s), phone \in PhonesAt(s) : role_page(s, role, name, phone)
    \/ \E s \in Sessions : dashboard_page(s)
    \/ \E s \in Sessions : food_rescue_view(s)
    \/ \E s \in Sessions, food_desc \in Texts, address \in {<<"a">>}, qty \in Qtys,
          until_time \in UntilTimes, rnd \in Rnds, code \in Codes :
            donor_post_page(s, food_desc, address, qty, until_time, rnd, code)
    \/ \E s \in Sessions, target_id \in TargetIds :
            donor_my_posts_page(s, target_id, "cancel", <<>>)
    \/ \E s \in Sessions, target_id \in TargetIds, vcode \in PresentedCodes :
            donor_my_posts_page(s, target_id, "complete", vcode)
    \/ \E s \in Sessions, target_id \in TargetIds, vcode \in Codes :
            volunteer_find_claim_page(s, target_id, vcode)
    \/ \E s \in Sessions, target_id \in TargetIds, dcode \in PresentedCodes :
            volunteer_my_claims_page(s, target_id, dcode)

Spec == Init /\ [][Next]_vars

----------------------------------------------------------------------------
(* The same runs with the role free: any person may take either role on
   role_page and give it up with "Switch Role".  The clock stands still and
   the host is on UTC, so no post lapses; the random digits of new_id differ
   from post to post. *)

InitRoles == Init /\ off = 0

NextRoles ==
    \/ \E s \in Sessions, role \in {"donor", "volunteer"} :
          \E name \in NamesAt(s), phone \in PhonesAt(s) : role_page(s, role, name, phone)
    \/ \E s \in Sessions : reset_role(s)
    \/ \E s \in Sessions, code \in Codes :
            donor_post_page(s, <<"r">>, <<"a">>, 10, MaxClock, Len(file), code)
    \/ \E s \in Sessions, target_id \in TargetIds, vcode \in PresentedCodes :
            donor_my_posts_page(s, target_id, "complete", vcode)
    \/ \E s \in Sessions, target_id \in TargetIds, vcode \in Codes :
            volunteer_find_claim_page(s, target_id, vcode)
    \/ \E s \in Sessions, target_id \in TargetIds, dcode \in PresentedCodes :
            volunteer_my_claims_page(s, target_id, dcode)

SpecRoles == InitRoles /\ [][NextRoles]_vars

----------------------------------------------------------------------------
(* Interleaved script runs.  Streamlit runs every session's script in a
   thread of its own and nothing locks the store, so another session's run
   may fall between a handler's load_data() and its save_data().  A handler
   is two steps: Begin up to and with its load_data(), End from the check to
   the end of the run.  The clock stands still and the host is on UTC. *)

Idle(s) == pc[s] = "idle"

Begin(s, op, id, code, actor) ==
    /\ pc' = [pc EXCEPT ![s] = op]
    /\ ldf' = [ldf EXCEPT ![s] = load_data_df]
    /\ req' = [req EXCEPT ![s] = Req(op, id, code, actor, "-", <<>>)]
    /\ cache' = Loaded
    /\ UNCHANGED <<file, clock, off, session, last>>

\* the end of a handler whose outcome is o; after a save the cache is dropped,
\* and a page rendered after the handler loads again
End(s, o, renders_after) ==
    /\ pc' = [pc EXCEPT ![s] = "idle"]
    /\ ldf' = [ldf EXCEPT ![s] = <<>>]
    /\ req' = [req EXCEPT ![s] = [req[s] EXCEPT !.res = o.res,
                                                !.pre = PreRow(ldf[s], req[s].id)]]
    /\ IF o.res = "ok"
       THEN /\ file' = save_data_file(o.df)
            /\ cache' = IF renders_after THEN Reloaded(o.df) ELSE NoCache
       ELSE /\ file' = file
            /\ cache' = Loaded
    /\ UNCHANGED <<clock, off, session, last>>

\* donor_post_page up to line 425
CreateBegin(s, code) ==
    /\ Idle(s) /\ session[s].role = "donor"
    /\ Len(file) < MaxPosts
    /\ Begin(s, "create", new_id(Len(load_data_df)), code, "-")

\* donor_post_page lines 426-446, then donor_my_posts_page
CreateEnd(s) ==
    /\ pc[s] = "create"
    /\ End(s, Outcome("ok", "-",
                NewPost(ldf[s], session[s], <<"r">>, 10, MaxClock, <<>>, <<"a">>,
                        req[s].id[2], req[s].code)), TRUE)

\* volunteer_find_claim_page up to line 597
ClaimBegin(s, target_id) ==
    /\ Idle(s) /\ session[s].role = "volunteer"
    /\ OpenRows(load_data_df) # {}
    /\ Begin(s, "claim", target_id, <<>>, "-")

\* volunteer_find_claim_page lines 598-611, then volunteer_my_claims_page
ClaimEnd(s, vcode) ==
    /\ pc[s] = "claim"
    /\ End(s, claim_post(ldf[s], req[s].id, session[s], vcode), TRUE)

\* donor_my_posts_page and _update_status up to line 452
CancelBegin(s, target_id) ==
    /\ Idle(s) /\ session[s].role = "donor"
    /\ MyPosts(load_data_df, session[s]) # {}
    /\ Begin(s, "cancel", target_id, <<>>, "-")

\* _update_status lines 453-465
CancelEnd(s) ==
    /\ pc[s] = "cancel"
    /\ End(s, update_status(ldf[s], req[s].id, STATUS_OPEN, STATUS_EXPIRED, FALSE), FALSE)

\* either page's complete form and _complete_post up to line 468
CompleteBegin(s, target_id, code) ==
    /\ Idle(s) /\ session[s].role # "none"
    /\ IF session[s].role = "donor"
       THEN MyPosts(load_data_df, session[s]) # {}
       ELSE MyClaims(load_data_df, session[s]) # {}
    /\ Begin(s, "complete", target_id, code, session[s].role)

\* _complete_post lines 469-484
CompleteEnd(s) ==
    /\ pc[s] = "complete"
    /\ End(s, complete_post(ldf[s], req[s].id, req[s].code, req[s].actor), FALSE)

ConcIds == {file[i].id : i \in 1..Len(file)}

NextConc ==
    \/ \E s \in Sessions : Idle(s) /\ role_page(s, RoleOf(s), NameOf(s), PhoneOf(s))
    \/ \E s \in Sessions, code \in Codes : CreateBegin(s, code)
    \/ \E s \in Sessions : CreateEnd(s)
    \/ \E s \in Sessions, target_id \in ConcIds : ClaimBegin(s, target_id)
    \/ \E s \in Sessions, vcode \in Codes : ClaimEnd(s, vcode)
    \/ \E s \in Sessions, target_id \in ConcIds : CancelBegin(s, target_id)
    \/ \E s \in Sessions : CancelEnd(s)
    \/ \E s \in Sessions, target_id \in ConcIds, code \in Codes :
          CompleteBegin(s, target_id, code)
    \/ \E s \in Sessions : CompleteEnd(s)

SpecConc == InitRoles /\ [][NextConc]_vars

----------------------------------------------------------------------------
(* Interleaved runs with load_data() itself in two steps on a cache miss:
   the body reads the file (line 83), and on return the decorator stores the
   frame in the cache.  st.cache_data lets one thread at a time compute a
   missing entry; load_data.clear() does not wait for it.  Both people are
   donors, the clock stands still and the host is on UTC. *)

\* a load_data() call can go ahead: a hit, or a miss with no other thread computing
LoadFree == cache.valid \/ \A t \in Sessions : pc[t] # "load"

AllIdle == \A t \in Sessions : Idle(t)

\* a page render whose load_data() misses the cache: up to read_csv
ViewBegin(s) ==
    /\ Idle(s) /\ session[s].role # "none"
    /\ ~cache.valid /\ LoadFree
    /\ pc' = [pc EXCEPT ![s] = "load"]
    /\ ldf' = [ldf EXCEPT ![s] = ReadCsv(file, Now)]
    /\ UNCHANGED <<file, cache, clock, off, session, last, req>>

\* load_data() returns and its result becomes the cache entry
ViewEnd(s) ==
    /\ pc[s] = "load"
    /\ pc' = [pc EXCEPT ![s] = "idle"]
    /\ cache' = [valid |-> TRUE, df |-> ldf[s]]
    /\ ldf' = [ldf EXCEPT ![s] = <<>>]
    /\ UNCHANGED <<file, clock, off, session, last, req>>

NextLoad ==
    \/ \E s \in Sessions : AllIdle /\ role_page(s, "donor", NameOf(s), PhoneOf(s))
    \/ \E s \in Sessions, code \in Codes :
          AllIdle /\ donor_post_page(s, <<"r">>, <<"a">>, 10, MaxClock, Len(file), code)
    \/ \E s \in Sessions : ViewBegin(s)
    \/ \E s \in Sessions : ViewEnd(s)
    \/ \E s \in Sessions, target_id \in ConcIds : LoadFree /\ CancelBegin(s, target_id)
    \/ \E s \in Sessions : CancelEnd(s)

SpecLoad == InitRoles /\ [][NextLoad]_vars

----------------------------------------------------------------------------
(* Interleaved runs with save_data() itself in steps: to_csv opens
   surplus.csv for writing, which empties it, writes the rows, and only after
   that load_data.clear() runs (lines 113-114).  Another session's
   load_data() that misses the cache in between reads what is in the file at
   that moment.  One save is under way at a time; req[s].pre keeps the table
   the file held before it.  Both people are donors, the clock stands still
   and the host is on UTC. *)

Saving(s) == pc[s] = "saving"

\* _update_status lines 453-464 up to the open of to_csv
SaveOpen(s) ==
    /\ pc[s] = "cancel"
    /\ \A t \in Sessions : ~Saving(t)
    /\ LET o == update_status(ldf[s], req[s].id, STATUS_OPEN, STATUS_EXPIRED, FALSE) IN
       IF o.res = "ok"
       THEN /\ pc' = [pc EXCEPT ![s] = "saving"]
            /\ ldf' = [ldf EXCEPT ![s] = WriteCsv(o.df)]
            /\ req' = [req EXCEPT ![s] = [req[s] EXCEPT !.res = o.res, !.pre = file]]
            /\ file' = <<>>
            /\ cache' = cache
       ELSE /\ pc' = [pc EXCEPT ![s] = "idle"]
            /\ ldf' = [ldf EXCEPT ![s] = <<>>]
            /\ req' = [req EXCEPT ![s] = [req[s] EXCEPT !.res = o.res]]
            /\ file' = file
            /\ cache' = cache
    /\ UNCHANGED <<clock, off, session, last>>

\* to_csv writes the next row
SaveRow(s) ==
    /\ Saving(s)
    /\ Len(file) < Len(ldf[s])
    /\ file' = Append(file, ldf[s][Len(file) + 1])
    /\ UNCHANGED <<cache, clock, off, session, last, pc, ldf, req>>

\* to_csv is done and load_data.clear() runs
SaveClose(s) ==
    /\ Saving(s)
    /\ Len(file) = Len(ldf[s])
    /\ pc' = [pc EXCEPT ![s] = "idle"]
    /\ ldf' = [ldf EXCEPT ![s] = <<>>]
    /\ cache' = NoCache
    /\ UNCHANGED <<file, clock, off, session, last, req>>

\* a page render of a session with no handler under way: load_data()
View(s) ==
    /\ Idle(s) /\ session[s].role # "none"
    /\ ~cache.valid
    /\ cache' = Loaded
    /\ UNCHANGED <<file, clock, off, session, last, pc, ldf, req>>

NextWrite ==
    \/ \E s \in Sessions : AllIdle /\ role_page(s, "donor", NameOf(s), PhoneOf(s))
    \/ \E s \in Sessions, code \in Codes :
          AllIdle /\ donor_post_page(s, <<"r">>, <<"a">>, 10, MaxClock, Len(file), code)
    \/ \E s \in Sessions, target_id \in ConcIds : CancelBegin(s, target_id)
    \/ \E s \in Sessions : SaveOpen(s)
    \/ \E s \in Sessions : SaveRow(s)
    \/ \E s \in Sessions : SaveClose(s)
    \/ \E s \in Sessions : View(s)

SpecWrite == InitRoles /\ [][NextWrite]_vars

----------------------------------------------------------------------------
(* save_data and load_data on their own: a frame of one post is saved, loaded
   (a cache miss), and the loaded frame is saved and loaded once more.  The
   frame is one a handler can hold at save_data: a row as load_data returned
   it (missing cells, naive timestamps) or a row with values set in this run
   (empty strings, local_iso timestamps), of any status, with a deadline
   before, at or after the clock, or with none. *)

Statuses == {STATUS_OPEN, STATUS_CLAIMED, STATUS_COMPLETED, STATUS_EXPIRED}

DeadlineTimes == (0 - 1)..(MaxClock + 1)

\* fresh: the row is as the handler leading to st has just set it (for Open the
\* new post of donor_post_page, for Completed the completed_at_iso stamp of
\* _complete_post); otherwise, and in every other cell, as load_data returned it
DrawnRow(fresh, st, ru) ==
    LET created == fresh /\ st = STATUS_OPEN
        empty == IF created THEN <<>> ELSE NaN
        claimed == st \in {STATUS_CLAIMED, STATUS_COMPLETED}
    IN  [ id |-> <<0, 0>>,
          created_at_iso |-> IF created THEN local_iso(Now) ELSE Naive(0),
          donor_name |-> NameOf(1),
          donor_phone |-> PhoneOf(1),
          food_desc |-> <<"r">>,
          qty_meals |-> 10,
          veg_type |-> <<"V">>,
          allergens |-> empty,
          address |-> <<"a">>,
          ready_until_iso |-> ru,
          ready_until_hhmm |-> 0,
          status |-> st,
          claimer_name |-> IF claimed THEN NameOf(2) ELSE empty,
          claimer_phone |-> IF claimed THEN PhoneOf(2) ELSE empty,
          donor_code |-> <<"0", "1">>,
          volunteer_code |-> IF claimed THEN <<"0", "0">> ELSE empty,
          completed_at_iso |-> IF st # STATUS_COMPLETED THEN NaT
                               ELSE IF fresh THEN local_iso(Now) ELSE Naive(0) ]

InitStore ==
    /\ file = <<>>
    /\ cache = NoCache
    /\ clock \in 0..MaxClock
    /\ off \in Offsets
    /\ session = [s \in Sessions |-> NoSession]
    /\ last = NoLast
    /\ pc = [s \in Sessions |-> "idle"]
    /\ req = [s \in Sessions |-> NoReq]
    /\ \E fresh \in BOOLEAN, st \in Statuses :
       \E ru \in {NaT} \cup {IF fresh /\ st = STATUS_OPEN
                               THEN local_iso(build_ready_until(Today, t - Today))
                               ELSE Naive(t) : t \in DeadlineTimes} :
          ldf = [s \in Sessions |-> IF s = 1 THEN <<DrawnRow(fresh, st, ru)>> ELSE <<>>]

\* save_data(df) of the frame held
StoreSave ==
    /\ last.op = "none"
    /\ file' = save_data_file(ldf[1])
    /\ cache' = NoCache
    /\ last' = Last("save", 0, EmptyId, <<>>, "-", "-", "-")
    /\ UNCHANGED <<clock, off, session, pc, ldf, req>>

\* load_data() after it
StoreLoad ==
    /\ last.op = "save"
    /\ cache' = Loaded
    /\ last' = Last("load", 0, EmptyId, <<>>, "-", "-", "-")
    /\ UNCHANGED <<file, clock, off, session, pc, ldf, req>>

\* save_data of the loaded frame, whose status column is the effective status,
\* and load_data() again
StoreAgain ==
    /\ last.op = "load"
    /\ file' = save_data_file(load_data_df)
    /\ cache' = Reloaded(load_data_df)
    /\ last' = Last("reload", 0, EmptyId, <<>>, "-", "-", "-")
    /\ UNCHANGED <<clock, off, session, pc, ldf, req>>

NextStore == StoreSave \/ StoreLoad \/ StoreAgain

SpecStore == InitStore /\ [][NextStore]_vars

----------------------------------------------------------------------------
(* Reading the state *)

\* the row an operation on post_id reads: the first one with that id
RowOf(f, post_id) == f[FirstOf(Mask(f, post_id))]

\* the code the other party holds: donor_code for a volunteer, volunteer_code for a donor
CrossCode(row, actor) == IF actor = "volunteer" THEN row.donor_code ELSE row.volunteer_code

\* effective_status(post, now) of a stored row: what a fresh load_data() reports
EffectiveStatus(stored, t) == expire_row(ParseRow(stored), Naive(t))

\* the deadline the donor entered: until_time on the day of the post, in local time
LocalDeadline(row) == Today + row.ready_until_hhmm

\* dashboard_page with "Meals saved" summed over every post, whatever its status
Dashboard_all_posts(df) ==
    LET RECURSIVE Sum(_)
        Sum(n) == IF n = 0 THEN 0 ELSE Sum(n - 1) + df[n].qty_meals
        Count(st) == Cardinality({i \in 1..Len(df) : df[i].status = st})
    IN  [ total_posts |-> Len(df),
          saved_meals |-> IF df = <<>> THEN 0 ELSE Sum(Len(df)),
          open_posts |-> IF df = <<>> THEN 0 ELSE Count(STATUS_OPEN),
          claimed_posts |-> IF df = <<>> THEN 0 ELSE Count(STATUS_CLAIMED),
          expired_posts |-> IF df = <<>> THEN 0 ELSE Count(STATUS_EXPIRED) ]

\* dashboard_page, lines 661-666
Dashboard(df) ==
    LET RECURSIVE Sum(_)
        Sum(n) == IF n = 0 THEN 0
                  ELSE Sum(n - 1) + (IF df[n].status = STATUS_COMPLETED THEN df[n].qty_meals ELSE 0)
        Count(st) == Cardinality({i \in 1..Len(df) : df[i].status = st})
    IN  [ total_posts |-> Len(df),
          saved_meals |-> IF df = <<>> THEN 0 ELSE Sum(Len(df)),
          open_posts |-> IF df = <<>> THEN 0 ELSE Count(STATUS_OPEN),
          claimed_posts |-> IF df = <<>> THEN 0 ELSE Count(STATUS_CLAIMED),
          expired_posts |-> IF df = <<>> THEN 0 ELSE Count(STATUS_EXPIRED) ]

\* the "Meals by status" chart with the Expired bar left out of the reindex
by_status_live(df) ==
    LET RECURSIVE Sum(_, _)
        Sum(st, n) == IF n = 0 THEN 0
                      ELSE Sum(st, n - 1) + (IF df[n].status = st THEN df[n].qty_meals ELSE 0)
    IN  [st \in Statuses |-> IF st = STATUS_EXPIRED THEN 0 ELSE Sum(st, Len(df))]

\* dashboard_page, lines 687-692: qty_meals summed per status, reindexed over
\* the four statuses, a status with no post filled with 0
by_status(df) ==
    LET RECURSIVE Sum(_, _)
        Sum(st, n) == IF n = 0 THEN 0
                      ELSE Sum(st, n - 1) + (IF df[n].status = st THEN df[n].qty_meals ELSE 0)
    IN  [st \in Statuses |-> Sum(st, Len(df))]

\* a script run has just ended with load_data() returning cache.df
JustRead == cache.valid /\ last.op # "none"

\* steps of the claim form and of the donor's cancel
ClaimStep == last'.op = "claim" /\ session' = session /\ vars' # vars
CancelStep == last'.op = "cancel" /\ session' = session /\ vars' # vars

CompleteRan == last.op = "complete" /\ last.res \in {"ok", "CodeMismatch", "InvalidState"}

----------------------------------------------------------------------------
(* C3: a complete on a Claimed post succeeds exactly when the presented code,
   trimmed, equals the cross-party code (donor_code for a volunteer,
   volunteer_code for a donor); otherwise it ends in CodeMismatch and the post
   stays Claimed with completed_at unset.  A complete that ends in InvalidState
   did not read a Claimed post. *)
C3_CompleteIffCrossCode ==
    CompleteRan =>
        LET row == RowOf(file, last.id) IN
        /\ last.res = "ok" =>
              /\ Strip(last.code) = CrossCode(row, last.actor)
              /\ row.status = STATUS_COMPLETED
        /\ last.res = "CodeMismatch" =>
              /\ Strip(last.code) # CrossCode(row, last.actor)
              /\ row.status = STATUS_CLAIMED
              /\ row.completed_at_iso = NaT
        /\ last.res = "InvalidState" =>
              RowOf(cache.df, last.id).status # STATUS_CLAIMED

\* a volunteer completes with the donor's code typed with blanks around it
C3_Witness ==
    /\ last.op = "complete" /\ last.res = "ok" /\ last.actor = "volunteer"
    /\ last.code # Strip(last.code)
    /\ RowOf(file, last.id).donor_code # RowOf(file, last.id).volunteer_code

----------------------------------------------------------------------------
(* C4: a claim succeeds only on a post whose effective status at that moment
   is Open; a claim on a post that is Claimed is rejected with InvalidState,
   naming 'claimed', and leaves the stored table (so the first claimer's
   name, phone and volunteer_code) as it was. *)
C4_ClaimOnlyWhenOpen ==
    [][ClaimStep =>
        LET id == last'.id IN
        /\ last'.res = "ok" => EffectiveStatus(RowOf(file, id), clock) = STATUS_OPEN
        /\ (Mask(file, id) # {} /\ EffectiveStatus(RowOf(file, id), clock) = STATUS_CLAIMED) =>
              /\ last'.res = "InvalidState"
              /\ last'.msg = STATUS_CLAIMED
              /\ file' = file]_vars

----------------------------------------------------------------------------
(* C5: a cancel succeeds only when the post's effective status is Open; on a
   Claimed, Completed or Expired post it ends in InvalidState and the stored
   table is unchanged.  On success the stored status is Expired and
   ready_until is the current time. *)
C5_CancelOnlyWhenOpen ==
    [][CancelStep =>
        LET id == last'.id IN
        /\ last'.res = "ok" =>
              /\ EffectiveStatus(RowOf(file, id), clock) = STATUS_OPEN
              /\ RowOf(file', id).status = STATUS_EXPIRED
              /\ RowOf(file', id).ready_until_iso = Naive(clock)
        /\ (Mask(file, id) # {} /\ EffectiveStatus(RowOf(file, id), clock) # STATUS_OPEN) =>
              /\ last'.res = "InvalidState"
              /\ file' = file]_vars

----------------------------------------------------------------------------
(* C6: every post's status, stored and as returned by a read, only moves
   Open -> Claimed -> Completed or Open|Claimed -> Expired; Completed and
   Expired are never left. *)
Allowed(a, b) ==
    \/ a = b
    \/ a = STATUS_OPEN /\ b \in {STATUS_CLAIMED, STATUS_EXPIRED}
    \/ a = STATUS_CLAIMED /\ b \in {STATUS_COMPLETED, STATUS_EXPIRED}

C6_StatusMonotonic ==
    [][\A i \in 1..Len(file) :
          /\ Allowed(file[i].status, file'[i].status)
          /\ (cache.valid /\ cache'.valid) =>
                Allowed(cache.df[i].status, cache'.df[i].status)]_vars

----------------------------------------------------------------------------
(* C7: the status a load returns for each post is effective_status of the
   stored post at the clock of that load, also when no write lies between two
   loads; and no claim or complete succeeds on a post whose deadline has
   passed. *)
Lapsed(stored, t) ==
    stored.ready_until_iso.k # "NaT" /\ stored.ready_until_iso.t < t

C7_ExpiryOnEveryRead ==
    /\ JustRead => \A i \in 1..Len(file) :
                      cache.df[i].status = EffectiveStatus(file[i], clock)
    /\ (last.op \in {"claim", "complete"} /\ last.res = "ok") =>
          ~Lapsed(RowOf(file, last.id), clock)

----------------------------------------------------------------------------
(* C8: a stored status becomes Expired only by a successful cancel of that
   post; no read and no create, claim or complete writes Expired. *)
C8_ExpiredOnlyByCancel ==
    [][\A i \in 1..Len(file) :
          (file[i].status # STATUS_EXPIRED /\ file'[i].status = STATUS_EXPIRED) =>
              (last'.op = "cancel" /\ last'.res = "ok" /\ last'.id = file[i].id)]_vars

----------------------------------------------------------------------------
(* C9: a post created with an until-time already past in the host's local
   time is Expired in the read that follows the create and is not in the
   open listing "only within time window", whatever the host's UTC offset. *)
C9_PastDeadlineExpiredAtOnce ==
    (last.op = "create" /\ last.res = "ok"
        /\ LocalDeadline(file[Len(file)]) < clock) =>
            /\ cache.df[Len(file)].status = STATUS_EXPIRED
            /\ Len(file) \notin OpenListing(cache.df, TRUE)

----------------------------------------------------------------------------
(* C10: a post whose until-time is later than the host's local time is not
   reported Expired by a read, whatever the host's UTC offset; and once the
   only post, of 10 meals, is Completed the dashboard shows 10 meals saved,
   0 open and 0 claimed. *)
C10_NotExpiredBeforeDeadline ==
    JustRead =>
        /\ \A i \in 1..Len(file) :
              (file[i].status \in {STATUS_OPEN, STATUS_CLAIMED} /\ clock < LocalDeadline(file[i])) =>
                  cache.df[i].status = file[i].status
        /\ (Len(file) = 1 /\ file[1].status = STATUS_COMPLETED /\ file[1].qty_meals = <<"1", "0">>) =>
              /\ Dashboard(cache.df).saved_meals = 10
              /\ Dashboard(cache.df).open_posts = 0
              /\ Dashboard(cache.df).claimed_posts = 0

----------------------------------------------------------------------------
(* C2: a post is Completed only by a party presenting the code issued to the
   other party: where donor and claimer are different people holding different
   codes, the volunteer's form is not completed by the donor of the post with
   the donor's own code, and the donor's form is not completed by the claimer
   of the post with the claimer's own volunteer_code. *)
C2_NeitherPartyAlone ==
    (last.op = "complete" /\ last.res = "ok") =>
        LET row == RowOf(file, last.id)
            me == session[last.who].user_name
        IN  /\ Strip(last.code) = CrossCode(row, last.actor)
            /\ (row.donor_name # row.claimer_name /\ row.donor_code # row.volunteer_code) =>
                  /\ last.actor = "volunteer" => me # row.donor_name
                  /\ last.actor = "donor" => me # row.claimer_name

----------------------------------------------------------------------------
(* C1: two lifecycle operations (claim, cancel, complete) of different
   sessions on the same post_id never both succeed from the same pre-state:
   no two sessions both hold a successful outcome for one post_id that read
   the same row. *)
Lifecycle == {"claim", "cancel", "complete"}

Succeeded(s) == req[s].op \in Lifecycle /\ req[s].res = "ok"

C1_NoDoubleSuccess ==
    \A s, t \in Sessions :
        (s # t /\ Succeeded(s) /\ Succeeded(t) /\ req[s].id = req[t].id) =>
            req[s].pre # req[t].pre

----------------------------------------------------------------------------
(* C11: once a save has returned, every load that starts after it returns
   the table of that save: whenever load_data() would answer from its cache,
   the cached frame is what reading the file at that moment gives, also when
   another session's load overlapped the save and its load_data.clear(). *)
C11_ReadAfterWrite ==
    cache.valid => cache.df = ReadCsv(file, Now)

----------------------------------------------------------------------------
(* C12: an operation's write never overwrites what another session's
   operation did to a different post: the run of a handler that ends leaves
   every stored post other than the one it is about in the store and as it
   was, so no created post is dropped and no status reverts. *)
EndsRun(s) == pc[s] \in {"create", "claim", "cancel", "complete"} /\ pc'[s] = "idle"

C12_NoLostUpdate ==
    [][\A s \in Sessions :
          EndsRun(s) =>
              \A i \in 1..Len(file) :
                  file[i].id # req[s].id =>
                      (i <= Len(file') /\ file'[i] = file[i])]_vars

----------------------------------------------------------------------------
(* C13: whenever the dashboard is rendered, its "Meals saved" is the sum of
   qty_meals over the stored posts whose status is Completed, and 0 for an
   empty store. *)
RECURSIVE MealsOf(_, _)
MealsOf(f, S) ==
    IF S = {} THEN 0
    ELSE LET i == CHOOSE j \in S : TRUE
         IN  TextInt(f[i].qty_meals) + MealsOf(f, S \ {i})

CompletedRows(f) == {i \in 1..Len(f) : f[i].status = STATUS_COMPLETED}

C13_DashboardMeals ==
    last.op = "dashboard" =>
        Dashboard(cache.df).saved_meals = MealsOf(file, CompletedRows(file))

\* the dashboard is rendered with one post Completed and another one not
C13_Witness ==
    /\ last.op = "dashboard"
    /\ Len(file) = 2
    /\ Cardinality(CompletedRows(file)) = 1
    /\ Dashboard(cache.df).saved_meals = 10

----------------------------------------------------------------------------
(* C14: effective_status returns the stored status when ready_until is
   absent, Expired when the stored status is Open or Claimed and ready_until
   is strictly before now, and the stored status in every other case: a
   Completed or Expired post is never altered, and a post whose ready_until
   equals now is not yet Expired. *)
C14_EffectiveStatus ==
    last.op = "load" =>
        LET st == file[1].status
            ru == file[1].ready_until_iso
            out == cache.df[1].status
        IN  /\ ru = NaT => out = st
            /\ (ru # NaT /\ st \in {STATUS_OPEN, STATUS_CLAIMED} /\ ru.t < clock) =>
                  out = STATUS_EXPIRED
            /\ (ru # NaT /\ ru.t >= clock) => out = st
            /\ st \in {STATUS_COMPLETED, STATUS_EXPIRED} => out = st

\* a Claimed post is loaded at the very instant of its deadline
C14_Witness ==
    /\ last.op = "load"
    /\ file[1].status = STATUS_CLAIMED
    /\ file[1].ready_until_iso = Naive(clock)
    /\ cache.df[1].status = STATUS_CLAIMED

----------------------------------------------------------------------------
(* C15: effective_status is idempotent: the policy applied, at the same now,
   to a post whose status was already replaced by its effective status gives
   the status that applying it once to the stored post gives. *)
C15_ExpiryIdempotent ==
    last.op = "reload" =>
        cache.df[1].status = EffectiveStatus(StoreRow(ldf[1][1]), clock)

\* a Claimed post past its deadline has gone through the policy twice
C15_Witness ==
    /\ last.op = "reload"
    /\ ldf[1][1].status = STATUS_CLAIMED
    /\ cache.df[1].status = STATUS_EXPIRED

----------------------------------------------------------------------------
(* C16: a frame saved and then loaded comes back with every field of every
   post as it was saved (empty claimer fields and volunteer_code, the codes,
   the timestamps); only status may differ, by freshly computed expiry. *)
C16_RoundTrip ==
    last.op = "load" =>
        /\ Len(cache.df) = Len(ldf[1])
        /\ \A i \in 1..Len(ldf[1]) :
              \A c \in DOMAIN ldf[1][i] \ {"status"} : cache.df[i][c] = ldf[1][i][c]

----------------------------------------------------------------------------
(* C17: no two posts in the store share an id, also when several posts are
   created within the same second of the clock. *)
C17_UniqueIds ==
    \A i, j \in 1..Len(file) : i # j => file[i].id # file[j].id

----------------------------------------------------------------------------
(* C18: a create appends exactly one post, with stored status Open, an id no
   stored post has, a donor_code of CodeLen digits, empty claimer_name,
   claimer_phone and volunteer_code and no completed_at; with an empty
   description or address it is refused and nothing is written. *)
CreateStep == last'.op = "create" /\ session' = session /\ vars' # vars

CreatedAsSpecified(p) ==
    /\ p.status = STATUS_OPEN
    /\ Len(p.donor_code) = CodeLen /\ IsDigit(p.donor_code)
    /\ p.claimer_name = <<>> /\ p.claimer_phone = <<>> /\ p.volunteer_code = <<>>
    /\ p.completed_at_iso = NaT
    /\ p.food_desc # <<>> /\ p.address # <<>>

C18_CreateAppendsOpenPost ==
    [][CreateStep =>
        /\ last'.res \in {"ok", "ValidationError"}
        /\ last'.res = "ValidationError" => file' = file
        /\ last'.res = "ok" =>
              /\ Len(file') = Len(file) + 1
              /\ CreatedAsSpecified(file'[Len(file')])
              /\ file'[Len(file')].id = last'.id
              /\ \A i \in 1..Len(file) : file[i].id # last'.id]_vars

----------------------------------------------------------------------------
(* C19: every stored post has a non-empty donor_code, which stays the one
   issued at creation; volunteer_code, claimer_name and claimer_phone are all
   empty while the post is stored Open, all non-empty once it is Claimed or
   Completed, and all empty or all non-empty when it is Expired. *)
ClaimerCells(p) == {p.claimer_name, p.claimer_phone, p.volunteer_code}

CodesAsSpecified(p) ==
    /\ p.donor_code # <<>>
    /\ p.status = STATUS_OPEN => ClaimerCells(p) = {<<>>}
    /\ p.status \in {STATUS_CLAIMED, STATUS_COMPLETED} => <<>> \notin ClaimerCells(p)
    /\ p.status = STATUS_EXPIRED => (ClaimerCells(p) = {<<>>} \/ <<>> \notin ClaimerCells(p))

C19_CodesAndClaimer ==
    /\ [](\A i \in 1..Len(file) : CodesAsSpecified(file[i]))
    /\ [][\A i \in 1..Len(file) : file'[i].donor_code = file[i].donor_code]_vars

----------------------------------------------------------------------------
(* C20: a claim, a complete or a cancel, successful or failed, on this post
   or on another, leaves the id, qty_meals, donor_name, donor_phone,
   food_desc, veg_type, allergens and address of every stored post as they
   were stored at creation. *)
CreationAttributes ==
    {"id", "qty_meals", "donor_name", "donor_phone", "food_desc", "veg_type",
     "allergens", "address"}

LifecycleStep == last'.op \in {"claim", "complete", "cancel"} /\ vars' # vars

----------------------------------------------------------------------------
(* C21: after every write, each stored post's ready_until_hhmm is the time of
   day, in the host's local time, of its stored ready_until deadline. *)
LocalTimeOfDay(ru) == (ru.t + off) % DayLen

C21_HhmmInSync ==
    \A i \in 1..Len(file) :
        file[i].ready_until_iso # NaT =>
            file[i].ready_until_hhmm = LocalTimeOfDay(file[i].ready_until_iso)

----------------------------------------------------------------------------
(* C22: every InvalidState failure of a claim, a complete or a cancel names,
   in its error message, the effective status the post has at that moment. *)
C22_InvalidStateNamesStatus ==
    last.res = "InvalidState" =>
        last.msg = EffectiveStatus(RowOf(file, last.id), clock)

----------------------------------------------------------------------------
(* C23: a load running while a save is under way returns the complete table
   from before the save or the complete table the save writes, never a part
   of it. *)
C23_SaveAtomic ==
    \A s \in Sessions :
        (Saving(s) /\ cache.valid) =>
            cache.df \in {ReadCsv(req[s].pre, Now), ReadCsv(ldf[s], Now)}

----------------------------------------------------------------------------
(* C24: a post stored Open or Claimed whose deadline has lapsed is stored
   Expired by the next successful create, claim, complete or cancel, on any
   post, whose run reads the table after the deadline. *)
WriteStep ==
    /\ last'.op \in {"create", "claim", "complete", "cancel"}
    /\ last'.res = "ok"
    /\ vars' # vars

C24_LapsedStoredExpired ==
    [][WriteStep =>
        \A i \in 1..Len(file) :
            (file[i].status \in {STATUS_OPEN, STATUS_CLAIMED} /\ Lapsed(file[i], clock)) =>
                file'[i].status = STATUS_EXPIRED]_vars

----------------------------------------------------------------------------
(* C25: a complete of an unknown post_id fails with NotFound; a complete of a
   known post whose effective status is not Claimed (Open, Completed,
   Expired, or Claimed but lapsed) fails with InvalidState whatever the code
   and writes nothing; no complete changes a completed_at that is set. *)
CompleteStep ==
    /\ last'.op = "complete"
    /\ last'.res \in {"ok", "NotFound", "InvalidState", "CodeMismatch"}
    /\ vars' # vars

C25_CompleteCheckOrder ==
    [][CompleteStep =>
        LET id == last'.id IN
        /\ Mask(file, id) = {} => last'.res = "NotFound"
        /\ (Mask(file, id) # {} /\ EffectiveStatus(RowOf(file, id), clock) # STATUS_CLAIMED) =>
              (last'.res = "InvalidState" /\ file' = file)
        /\ \A i \in 1..Len(file) :
              file[i].completed_at_iso # NaT =>
                  file'[i].completed_at_iso = file[i].completed_at_iso]_vars

----------------------------------------------------------------------------
(* C26: a stored post has a completed_at exactly when its stored status is
   Completed; completed_at changes only in a successful complete of that
   post, from unset to the current time (stored as its UTC reading). *)
C26_CompletedAtIffCompleted ==
    /\ [](\A i \in 1..Len(file) :
            (file[i].completed_at_iso # NaT) <=> (file[i].status = STATUS_COMPLETED))
    /\ [][\A i \in 1..Len(file) :
            file'[i].completed_at_iso # file[i].completed_at_iso =>
                /\ last'.op = "complete" /\ last'.res = "ok"
                /\ file[i].id = last'.id
                /\ file[i].completed_at_iso = NaT
                /\ file'[i].completed_at_iso = Naive(clock - off)]_vars

\* on a host off UTC one of two posts has been completed, the other claimed
C26_Witness ==
    /\ last.op = "complete" /\ last.res = "ok"
    /\ off # 0
    /\ Len(file) = 2
    /\ \E i, j \in 1..2 :
          /\ file[i].status = STATUS_COMPLETED /\ file[i].completed_at_iso # NaT
          /\ file[j].status = STATUS_CLAIMED /\ file[j].completed_at_iso = NaT

----------------------------------------------------------------------------
(* C27: a claim, complete or cancel that ends in NotFound, InvalidState or
   CodeMismatch, and a create refused by its input check, performs no save:
   the stored table is the same before and after, and the cache is not
   cleared. *)
FailedStep ==
    /\ last'.op \in {"create", "claim", "complete", "cancel"}
    /\ last'.res \in {"NotFound", "InvalidState", "CodeMismatch", "ValidationError"}
    /\ vars' # vars

C27_FailedOpsWriteNothing ==
    [][FailedStep => (file' = file /\ cache'.valid)]_vars

\* a complete has failed on its code while a stored Open or Claimed post is
\* reported Expired by the load
C27_Witness ==
    /\ last.op = "complete" /\ last.res = "CodeMismatch"
    /\ cache.valid
    /\ \E i \in 1..Len(file) : cache.df[i].status # file[i].status

----------------------------------------------------------------------------
(* C28: the dashboard's counts partition the store.  Whenever the dashboard
   is rendered, every post it read has one of the four statuses, the total
   number of posts is the number of Open, Claimed and Expired posts shown
   plus the number of Completed posts, and the four per-status meal totals
   add up to the sum of qty_meals over all stored posts. *)
C28_DashboardPartition ==
    last.op = "dashboard" =>
        LET df == cache.df
            d == Dashboard(df)
            b == by_status(df)
        IN  /\ \A i \in 1..Len(df) : df[i].status \in Statuses
            /\ d.total_posts = Len(file)
            /\ d.total_posts = d.open_posts + d.claimed_posts
                                 + Cardinality(CompletedRows(df)) + d.expired_posts
            /\ b[STATUS_OPEN] + b[STATUS_CLAIMED] + b[STATUS_COMPLETED] + b[STATUS_EXPIRED]
                 = MealsOf(file, 1..Len(file))

\* the dashboard is rendered over one Completed post and one Expired post
C28_Witness ==
    /\ last.op = "dashboard"
    /\ Len(file) = 2
    /\ Dashboard(cache.df).expired_posts = 1
    /\ by_status(cache.df)[STATUS_COMPLETED] = 10
    /\ by_status(cache.df)[STATUS_EXPIRED] = 10

====
